---- MODULE Spec2Model ----
(***************************************************************************)
(* Entity resolution core of the knowledge-graph system: the resolve()     *)
(* pipeline of the Entity Resolution Module design (load mentions ->        *)
(* normalize/block -> resolve canonicals -> persist entities + mapping ->   *)
(* remap relationships -> persist relationships + provenance) over the four *)
(* result tables resolved_entities, entity_resolution_map,                  *)
(* resolved_relationships and resolved_relationship_mentions.               *)
(*                                                                          *)
(* Names are sequences of one-character strings so that normalization is    *)
(* computed, not assumed.  Ids are sequences of strings so that a raw       *)
(* entity id and a resolved id can stand in the same column.  The           *)
(* timestamp columns and primary_name are not modelled.                     *)
(***************************************************************************)
EXTENDS Integers, Sequences, FiniteSets, Bags, TLC

\* ------------------------------------------------------------------ bounds
\* Number of resolve() invocations a behaviour may hold.
MaxRuns == 2

\* Number of asynchronous store actions that may be in flight together.
MaxInFlight == 2

\* Number of successful saves after which saveGraph is called no more.
MaxSaves == 1

\* Number of edits of nodes, edges and documents a behaviour may hold.
MaxEdits == 2

\* Number of KG JSON files chosen on the viewer page in a behaviour.
MaxKgLoads == 1

\* ---------------------------------------------------------------- raw data
\* The `entities` and `relationships` tables owned by ingestion (read-only).
Docs == {"d1", "d2"}

\* A mention stored without a type.
NullType == "NULL"

MentionIds == {"e1", "e2", "e3", "e4", "e5"}

Entities ==
  [e \in MentionIds |->
     CASE e = "e1" -> [name |-> <<"A","m","a","z","o","n"," ","I","n","c",".">>,
                       type |-> "organization", document_id |-> "d1"]
       [] e = "e2" -> [name |-> <<"a","m","a","z","o","n">>,
                       type |-> "location", document_id |-> "d1"]
       [] e = "e3" -> [name |-> <<" ","A","M","A","Z","O","N"," "," ">>,
                       type |-> "organization", document_id |-> "d2"]
       [] e = "e4" -> [name |-> <<"?","!">>,
                       type |-> "organization", document_id |-> "d2"]
       [] e = "e5" -> [name |-> <<"A","m","a","z","o","n">>,
                       type |-> NullType, document_id |-> "d2"]]

RelationshipIds == {"r1", "r2", "r3"}

Relationships ==
  [r \in RelationshipIds |->
     CASE r = "r1" -> [subject |-> "e1", predicate |-> "located_in",
                       object |-> "e2", document_id |-> "d1"]
       [] r = "r2" -> [subject |-> "e3", predicate |-> "located_in",
                       object |-> "e2", document_id |-> "d2"]
       [] r = "r3" -> [subject |-> "e4", predicate |-> "located_in",
                       object |-> "e2", document_id |-> "d2"]]

\* A ResolutionFilter by doc_ids; the full set stands for "no filter".
Filters == (SUBSET Docs) \ {{}}

\* ----------------------------------------------------------- normalization
UpperLower ==
  { <<"A","a">>, <<"C","c">>, <<"I","i">>, <<"M","m">>, <<"N","n">>,
    <<"O","o">>, <<"Z","z">> }

Alnum ==
  { "a","b","c","d","e","f","g","h","i","j","k","l","m","n","o","p","q","r",
    "s","t","u","v","w","x","y","z","0","1","2","3","4","5","6","7","8","9" }

Lower(c) ==
  IF \E p \in UpperLower : p[1] = c
    THEN (CHOOSE p \in UpperLower : p[1] = c)[2]
    ELSE c

LowerAll(s) == [i \in 1..Len(s) |-> Lower(s[i])]

RECURSIVE Strip(_)
\* strip: drop leading and trailing spaces
Strip(s) ==
  IF s = <<>> THEN s
  ELSE IF Head(s) = " " THEN Strip(Tail(s))
  ELSE IF s[Len(s)] = " " THEN Strip(SubSeq(s, 1, Len(s) - 1))
  ELSE s

RECURSIVE CollapseWhitespace(_)
\* a run of spaces becomes one space
CollapseWhitespace(s) ==
  IF Len(s) < 2 THEN s
  ELSE IF s[1] = " " /\ s[2] = " " THEN CollapseWhitespace(Tail(s))
  ELSE <<s[1]>> \o CollapseWhitespace(Tail(s))

RECURSIVE RemovePunctuation(_)
\* keep alphanumerics and spaces
RemovePunctuation(s) ==
  IF s = <<>> THEN s
  ELSE IF Head(s) \in Alnum \cup {" "}
    THEN <<Head(s)>> \o RemovePunctuation(Tail(s))
    ELSE RemovePunctuation(Tail(s))

RECURSIVE Tokens(_)
\* the space-separated tokens of s
Tokens(s) ==
  IF s = <<>> THEN <<>>
  ELSE IF Head(s) = " " THEN Tokens(Tail(s))
  ELSE LET n == IF \E i \in 1..Len(s) : s[i] = " "
                  THEN (CHOOSE i \in 1..Len(s) :
                          s[i] = " " /\ \A j \in 1..(i-1) : s[j] # " ") - 1
                  ELSE Len(s)
       IN  <<SubSeq(s, 1, n)>> \o Tokens(SubSeq(s, n + 1, Len(s)))

RECURSIVE Join(_)
Join(ts) ==
  IF ts = <<>> THEN <<>>
  ELSE IF Len(ts) = 1 THEN ts[1]
  ELSE ts[1] \o <<" ">> \o Join(Tail(ts))

OrgSuffixes == { <<"i","n","c">>, <<"l","t","d">>, <<"c","o","r","p">>,
                 <<"l","l","c">> }

RECURSIVE DropOrgSuffixes(_)
\* Org: drop suffixes (inc, ltd, corp, llc)
DropOrgSuffixes(ts) ==
  IF ts # <<>> /\ ts[Len(ts)] \in OrgSuffixes
    THEN DropOrgSuffixes(SubSeq(ts, 1, Len(ts) - 1))
    ELSE ts

ReplaceAmpersand(ts) ==
  [i \in 1..Len(ts) |-> IF ts[i] = <<"&">> THEN <<"a","n","d">> ELSE ts[i]]

LocationAbbreviations ==
  { << <<"s","t">>, <<"s","t","r","e","e","t">> >>,
    << <<"a","v","e">>, <<"a","v","e","n","u","e">> >>,
    << <<"m","t">>, <<"m","o","u","n","t">> >> }

ExpandLocation(ts) ==
  [i \in 1..Len(ts) |->
     IF \E p \in LocationAbbreviations : p[1] = ts[i]
       THEN (CHOOSE p \in LocationAbbreviations : p[1] = ts[i])[2]
       ELSE ts[i]]

\* normalize_name(name, type): lowercase, strip, collapse whitespace, remove
\* punctuation, then the type-aware pass.  The raw data holds organization
\* and location mentions only, so the person pass has no definition here.
normalize_name(name, type) ==
  LET lowered  == CollapseWhitespace(Strip(LowerAll(name)))
      amp      == IF type = "organization"
                    THEN Join(ReplaceAmpersand(Tokens(lowered)))
                    ELSE lowered
      generic  == Strip(RemovePunctuation(amp))
      toks     == Tokens(generic)
  IN  CASE type = "organization" -> Join(DropOrgSuffixes(toks))
        [] type = "location"     -> Join(ExpandLocation(toks))
        [] OTHER                 -> Join(toks)

C5_KeyWithoutType(name, type) == <<"|">> \o normalize_name(name, type)

\* normalized_key = f"{type}|{normalized_name}"
normalized_key(name, type) == <<type, "|">> \o normalize_name(name, type)

\* sha1, taken to be collision-free on the keys of the model
Sha1(s) == <<"sha1">> \o s

\* resolved_id = 'res::' + sha1(type + '|' + normalized_name)[:16]
resolved_id(key) == <<"res::">> \o Sha1(key)

\* resolved_rel_id = sha1(subject_resolved_id + '|' + predicate + '|' + object_resolved_id)
resolved_rel_id(s, p, o) == Sha1(s \o <<"|", p, "|">> \o o)

NormName == [e \in MentionIds |-> normalize_name(Entities[e].name, Entities[e].type)]
NormKey  == [e \in MentionIds |-> normalized_key(Entities[e].name, Entities[e].type)]


\* ------------------------------------------------------------ the pipeline
EmptyTable == [k \in {} |-> 0]

\* load_mentions(db, filter): the mentions of the filter's documents
load_mentions(F) == {e \in MentionIds : Entities[e].document_id \in F}

\* A mention whose name normalizes to the empty string is not canonicalized.
Canonicalizable(e) == NormName[e] # <<>>

\* A mention without a type fails normalization (a row error).
RowOk(e) == Entities[e].type # NullType

C13_BlocksEveryRow(ms) ==
  LET keyed == {e \in ms : Canonicalizable(e)}
  IN  [g \in {<<NormKey[e], Entities[e].type>> : e \in keyed} |->
         {e \in keyed : <<NormKey[e], Entities[e].type>> = g}]

\* block_mentions(mentions): group by (normalized_key, type); a row that
\* fails normalization is skipped.
block_mentions(ms) ==
  LET keyed == {e \in ms : RowOk(e) /\ Canonicalizable(e)}
  IN  [g \in {<<NormKey[e], Entities[e].type>> : e \in keyed} |->
         {e \in keyed : <<NormKey[e], Entities[e].type>> = g}]

\* resolve_entities(blocks): one canonical record per group (mention_count =
\* group size, doc_count = distinct document ids) and one mapping row per
\* mention of a group.
resolve_entities(blocks) ==
  LET members(rid) ==
        UNION {blocks[g] : g \in {h \in DOMAIN blocks : resolved_id(h[1]) = rid}}
      group(rid)   == CHOOSE g \in DOMAIN blocks : resolved_id(g[1]) = rid
  IN  [resolved |->
         [rid \in {resolved_id(g[1]) : g \in DOMAIN blocks} |->
            [normalized_key |-> group(rid)[1],
             type           |-> group(rid)[2],
             mention_count  |-> Cardinality(members(rid)),
             doc_count      |->
               Cardinality({Entities[e].document_id : e \in members(rid)})]],
       mapping |->
         [e \in UNION {blocks[g] : g \in DOMAIN blocks} |->
            [resolved_id |-> resolved_id(NormKey[e]),
             normalized_key |-> NormKey[e]]]]

C2_UpsertOverwritesCounts(ents, batch) ==
  [rid \in DOMAIN ents \cup DOMAIN batch |->
     IF rid \in DOMAIN batch THEN batch[rid] ELSE ents[rid]]

\* upsert_resolved_entities(db, resolved_entities): insert a new canonical,
\* or increment the counts of the existing one.
upsert_resolved_entities(ents, batch) ==
  [rid \in DOMAIN ents \cup DOMAIN batch |->
     IF rid \notin DOMAIN batch THEN ents[rid]
     ELSE IF rid \notin DOMAIN ents THEN batch[rid]
     ELSE [ents[rid] EXCEPT
             !.mention_count = @ + batch[rid].mention_count,
             !.doc_count     = @ + batch[rid].doc_count]]

\* upsert_entity_resolution_map(db, mapping): entity_id is the primary key
upsert_entity_resolution_map(map, mapping) ==
  [e \in DOMAIN map \cup DOMAIN mapping |->
     IF e \in DOMAIN mapping THEN mapping[e] ELSE map[e]]

\* the relationships of the filter's documents
load_relationships(F) ==
  {r \in RelationshipIds : Relationships[r].document_id \in F}

\* An endpoint's canonical id; an endpoint with no mapping passes through
\* under its raw id.
Endpoint(map, e) == IF e \in DOMAIN map THEN map[e].resolved_id ELSE <<e>>

RelMention(map, r) ==
  LET s == Endpoint(map, Relationships[r].subject)
      o == Endpoint(map, Relationships[r].object)
      p == Relationships[r].predicate
  IN  [resolved_rel_id     |-> resolved_rel_id(s, p, o),
       subject_resolved_id |-> s,
       predicate           |-> p,
       object_resolved_id  |-> o,
       relationship_id     |-> r,
       document_id         |-> Relationships[r].document_id]

C7_RemapInnerJoin(map, F) ==
  LET rows == {RelMention(map, r) :
                 r \in {q \in load_relationships(F) :
                          /\ Relationships[q].subject \in DOMAIN map
                          /\ Relationships[q].object \in DOMAIN map}}
  IN  [edges |->
         [id \in {m.resolved_rel_id : m \in rows} |->
            LET of == {m \in rows : m.resolved_rel_id = id}
                any == CHOOSE m \in of : TRUE
            IN  [subject_resolved_id |-> any.subject_resolved_id,
                 predicate           |-> any.predicate,
                 object_resolved_id  |-> any.object_resolved_id,
                 weight              |-> Cardinality(of)]],
       rel_mentions |-> rows]

\* remap_relationships(db, mapping, filter): join the filter's relationships
\* with entity_resolution_map on both endpoints, one edge per resolved_rel_id
\* carrying the number of its mentions, one provenance row per relationship.
remap_relationships(map, F) ==
  LET rows == {RelMention(map, r) : r \in load_relationships(F)}
  IN  [edges |->
         [id \in {m.resolved_rel_id : m \in rows} |->
            LET of == {m \in rows : m.resolved_rel_id = id}
                any == CHOOSE m \in of : TRUE
            IN  [subject_resolved_id |-> any.subject_resolved_id,
                 predicate           |-> any.predicate,
                 object_resolved_id  |-> any.object_resolved_id,
                 weight              |-> Cardinality(of)]],
       rel_mentions |-> rows]

\* the document ids of the provenance rows (stored and new) of one edge
EdgeDocs(prov, rows, id) ==
  {m.document_id : m \in {n \in DOMAIN prov \cup rows : n.resolved_rel_id = id}}

\* upsert_resolved_relationships(db, resolved_edges): insert a new edge, or
\* increment the weight of the existing one; doc_count is updated to the
\* distinct documents of the edge's provenance.
upsert_resolved_relationships(rels, prov, edges, rows) ==
  [id \in DOMAIN rels \cup DOMAIN edges |->
     IF id \notin DOMAIN edges THEN rels[id]
     ELSE [subject_resolved_id |-> edges[id].subject_resolved_id,
           predicate           |-> edges[id].predicate,
           object_resolved_id  |-> edges[id].object_resolved_id,
           weight    |-> (IF id \in DOMAIN rels THEN rels[id].weight ELSE 0)
                           + edges[id].weight,
           doc_count |-> Cardinality(EdgeDocs(prov, rows, id))]]

\* insert_resolved_rel_mentions(db, rel_mentions): plain inserts; the table
\* has no key, so it is a bag of rows (row -> number of copies).
insert_resolved_rel_mentions(prov, rows) ==
  [m \in DOMAIN prov \cup rows |->
     (IF m \in DOMAIN prov THEN prov[m] ELSE 0) + (IF m \in rows THEN 1 ELSE 0)]

EmptyDB == [ents |-> EmptyTable, map |-> EmptyTable,
            rels |-> EmptyTable, prov |-> EmptyTable]

\* One uninterrupted resolve(filter) applied to the four tables.
ResolveRun(db, F) ==
  LET res   == resolve_entities(block_mentions(load_mentions(F)))
      ents1 == upsert_resolved_entities(db.ents, res.resolved)
      map1  == upsert_entity_resolution_map(db.map, res.mapping)
      rem   == remap_relationships(map1, F)
  IN  [ents |-> ents1,
       map  |-> map1,
       rels |-> upsert_resolved_relationships(db.rels, db.prov,
                                              rem.edges, rem.rel_mentions),
       prov |-> insert_resolved_rel_mentions(db.prov, rem.rel_mentions)]

\* ------------------------------------------------------------------- state
RunIds == 1..MaxRuns

VARIABLES
  resolved_entities,              \* resolved_id -> canonical record
  entity_resolution_map,          \* entity_id -> mapping row
  resolved_relationships,         \* resolved_rel_id -> edge record
  resolved_relationship_mentions, \* provenance row -> number of copies
  pc,          \* pc[r]: the phase invocation r of resolve() is in
  filter,      \* filter[r]: its ResolutionFilter
  local,       \* local[r]: mentions, blocks, resolved_entities, mapping, ...
  written,     \* written[r]: table writes done in the current persistence phase
  completed,   \* completed[r]: the last phase the invocation completed
  halted,      \* halted[r]: the invocation was interrupted and runs no more
  startDB      \* startDB[r]: the four tables as invocation r found them

\* ------------------------------------------------------ graph store state
\* null and undefined
NoId == "null"

\* The ids createGraphId can return, per prefix, and the triple ids the
\* backend hands out.
NodeIdPool == {"node-1", "node-2"}
EdgeIdPool == {"edge-1", "edge-2"}
DocumentIdPool == {"doc-1", "doc-2"}
TripleIds == {"t1", "t2"}

\* METRICS_BASELINE
METRICS_BASELINE == [totals |-> [nodes |-> 0, edges |-> 0, documents |-> 0]]

VARIABLES
  nodes,               \* GraphNode[]: id, documents (ids), triples (ids)
  edges,               \* GraphEdge[]: id, source, target, sourceDocumentId
  documents,           \* DocumentItem[]: id
  selection,           \* GraphSelection: nodeId, edgeId
  metrics,             \* GraphMetrics: totals
  isLoading,
  lastSavedAt,         \* 0 for null, else the ordinal of the save's timestamp
  errorMessage,        \* NoId or "error"
  visibleDocumentIds,  \* Set<string>
  graphMode,           \* "raw" or "resolved"
  inflight,            \* bag of the call stacks of the pending async actions
  appliedFrom,         \* the fetch whose snapshot applySnapshot stored last
  edits                \* the number of edits made so far

storeVars == <<nodes, edges, documents, selection, metrics, isLoading,
               lastSavedAt, errorMessage, visibleDocumentIds, graphMode,
               inflight, appliedFrom, edits>>

\* The store as useGraphStore() creates it.
StoreInit ==
  /\ nodes = <<>>
  /\ edges = <<>>
  /\ documents = <<>>
  /\ selection = [nodeId |-> NoId, edgeId |-> NoId]
  /\ metrics = METRICS_BASELINE
  /\ isLoading = FALSE
  /\ lastSavedAt = 0
  /\ errorMessage = NoId
  /\ visibleDocumentIds = {}
  /\ graphMode = "raw"
  /\ inflight = EmptyTable
  /\ appliedFrom = "none"
  /\ edits = 0

\* ------------------------------------------------- KG viewer page: state
\* No payload loaded (window.__kgPayload = null).
NoPayload == [entities |-> <<"null">>, relations |-> <<"null">>]

VARIABLES
  kgPayload,    \* window.__kgPayload: {entities: id[], relations: [s, p, t][]}
  chkResolve,   \* the "resolve" checkbox
  chkPrune,     \* the "prune isolates" checkbox
  rendered,     \* the payload handed to the renderer by the last render
  oldToNew,     \* the id map built by the last call of resolveKgSimple
  kgLoads       \* the number of KG JSON files chosen so far

kgVars == <<kgPayload, chkResolve, chkPrune, rendered, oldToNew, kgLoads>>

\* The page as its script leaves it after loading.
KgInit ==
  /\ kgPayload = NoPayload
  /\ chkResolve = FALSE
  /\ chkPrune = FALSE
  /\ rendered = NoPayload
  /\ oldToNew = EmptyTable
  /\ kgLoads = 0

erVars == <<resolved_entities, entity_resolution_map, resolved_relationships,
            resolved_relationship_mentions, pc, filter, local, written,
            completed, halted, startDB>>

vars == <<erVars, storeVars, kgVars>>

tables == <<resolved_entities, entity_resolution_map, resolved_relationships,
            resolved_relationship_mentions>>

DB == [ents |-> resolved_entities, map |-> entity_resolution_map,
       rels |-> resolved_relationships,
       prov |-> resolved_relationship_mentions]

NoLocal == [mentions |-> {}, blocks |-> EmptyTable, resolved |-> EmptyTable,
            mapping |-> EmptyTable, edges |-> EmptyTable, rel_mentions |-> {}]

Init ==
  /\ resolved_entities = EmptyTable
  /\ entity_resolution_map = EmptyTable
  /\ resolved_relationships = EmptyTable
  /\ resolved_relationship_mentions = EmptyTable
  /\ pc = [r \in RunIds |-> "Idle"]
  /\ filter = [r \in RunIds |-> {}]
  /\ local = [r \in RunIds |-> NoLocal]
  /\ written = [r \in RunIds |-> 0]
  /\ completed = [r \in RunIds |-> "Idle"]
  /\ halted = [r \in RunIds |-> FALSE]
  /\ startDB = [r \in RunIds |-> EmptyDB]
  /\ StoreInit
  /\ KgInit

C8_SkipsEntityPersistence(phase) ==
  CASE phase = "Idle"                   -> "LoadingMentions"
    [] phase = "LoadingMentions"        -> "Grouping"
    [] phase = "Grouping"               -> "ResolvingEntities"
    [] phase = "ResolvingEntities"      -> "RemappingRelationships"
    [] phase = "PersistingEntities"     -> "RemappingRelationships"
    [] phase = "RemappingRelationships" -> "PersistingRelationships"
    [] OTHER                            -> "Done"

\* The order of the calls of resolve(): load_mentions, block_mentions,
\* resolve_entities, the two entity upserts, remap_relationships, the two
\* relationship writes, return stats.
PhaseAfter(phase) ==
  CASE phase = "Idle"                    -> "LoadingMentions"
    [] phase = "LoadingMentions"         -> "Grouping"
    [] phase = "Grouping"                -> "ResolvingEntities"
    [] phase = "ResolvingEntities"       -> "PersistingEntities"
    [] phase = "PersistingEntities"      -> "RemappingRelationships"
    [] phase = "RemappingRelationships"  -> "PersistingRelationships"
    [] phase = "PersistingRelationships" -> "Done"

Terminal(r) == pc[r] \in {"Done", "Failed"}

Running(r) == pc[r] # "Idle" /\ ~Terminal(r) /\ ~halted[r]

Advance(r) ==
  /\ pc' = [pc EXCEPT ![r] = PhaseAfter(pc[r])]
  /\ completed' = [completed EXCEPT ![r] = pc[r]]

\* ----------------------------------------------------------------- actions
\* A caller invokes resolve(filter).  Invocations are numbered in the order
\* they are made.
Invoke(r, F) ==
  /\ pc[r] = "Idle"
  /\ \A q \in RunIds : q < r => pc[q] # "Idle"
  /\ filter' = [filter EXCEPT ![r] = F]
  /\ startDB' = [startDB EXCEPT ![r] = DB]
  /\ Advance(r)
  /\ UNCHANGED <<tables, local, written, halted>>
  /\ UNCHANGED <<storeVars, kgVars>>

\* The caller serializes invocations: one run mutates the tables at a time.
StartSerial(r, F) ==
  /\ \A q \in RunIds \ {r} : ~Running(q)
  /\ Invoke(r, F)

\* Two callers invoke resolve() without serializing.
StartOverlapping(r, F) ==
  /\ \E q \in RunIds \ {r} : TRUE
  /\ Invoke(r, F)

\* mentions = self.load_mentions(db, filter)
LoadMentions(r) ==
  /\ Running(r) /\ pc[r] = "LoadingMentions"
  /\ local' = [local EXCEPT ![r].mentions = load_mentions(filter[r])]
  /\ Advance(r)
  /\ UNCHANGED <<tables, filter, written, halted, startDB>>
  /\ UNCHANGED <<storeVars, kgVars>>

\* blocks = block_mentions(mentions)
Group(r) ==
  /\ Running(r) /\ pc[r] = "Grouping"
  /\ local' = [local EXCEPT ![r].blocks = block_mentions(local[r].mentions)]
  /\ Advance(r)
  /\ UNCHANGED <<tables, filter, written, halted, startDB>>
  /\ UNCHANGED <<storeVars, kgVars>>

\* resolved_entities, mapping = self.resolve_entities(blocks)
ResolveEntities(r) ==
  /\ Running(r) /\ pc[r] = "ResolvingEntities"
  /\ LET res == resolve_entities(local[r].blocks)
     IN  local' = [local EXCEPT ![r].resolved = res.resolved,
                                ![r].mapping = res.mapping]
  /\ Advance(r)
  /\ UNCHANGED <<tables, filter, written, halted, startDB>>
  /\ UNCHANGED <<storeVars, kgVars>>

\* upsert_resolved_entities(db, resolved_entities)
UpsertEntities(r) ==
  /\ Running(r) /\ pc[r] = "PersistingEntities" /\ written[r] = 0
  /\ resolved_entities' =
       upsert_resolved_entities(resolved_entities, local[r].resolved)
  /\ written' = [written EXCEPT ![r] = 1]
  /\ UNCHANGED <<entity_resolution_map, resolved_relationships,
                 resolved_relationship_mentions, pc, filter, local,
                 completed, halted, startDB>>
  /\ UNCHANGED <<storeVars, kgVars>>

\* upsert_entity_resolution_map(db, mapping)
UpsertMap(r) ==
  /\ Running(r) /\ pc[r] = "PersistingEntities" /\ written[r] = 1
  /\ entity_resolution_map' =
       upsert_entity_resolution_map(entity_resolution_map, local[r].mapping)
  /\ written' = [written EXCEPT ![r] = 0]
  /\ Advance(r)
  /\ UNCHANGED <<resolved_entities, resolved_relationships,
                 resolved_relationship_mentions, filter, local, halted,
                 startDB>>
  /\ UNCHANGED <<storeVars, kgVars>>

\* resolved_edges, rel_mentions = self.remap_relationships(db, mapping, filter)
RemapRelationships(r) ==
  /\ Running(r) /\ pc[r] = "RemappingRelationships"
  /\ LET rem == remap_relationships(entity_resolution_map, filter[r])
     IN  local' = [local EXCEPT ![r].edges = rem.edges,
                                ![r].rel_mentions = rem.rel_mentions]
  /\ Advance(r)
  /\ UNCHANGED <<tables, filter, written, halted, startDB>>
  /\ UNCHANGED <<storeVars, kgVars>>

\* upsert_resolved_relationships(db, resolved_edges)
UpsertRelationships(r) ==
  /\ Running(r) /\ pc[r] = "PersistingRelationships" /\ written[r] = 0
  /\ resolved_relationships' =
       upsert_resolved_relationships(resolved_relationships,
                                     resolved_relationship_mentions,
                                     local[r].edges, local[r].rel_mentions)
  /\ written' = [written EXCEPT ![r] = 1]
  /\ UNCHANGED <<resolved_entities, entity_resolution_map,
                 resolved_relationship_mentions, pc, filter, local,
                 completed, halted, startDB>>
  /\ UNCHANGED <<storeVars, kgVars>>

\* insert_resolved_rel_mentions(db, rel_mentions); return stats
InsertRelMentions(r) ==
  /\ Running(r) /\ pc[r] = "PersistingRelationships" /\ written[r] = 1
  /\ resolved_relationship_mentions' =
       insert_resolved_rel_mentions(resolved_relationship_mentions,
                                    local[r].rel_mentions)
  /\ written' = [written EXCEPT ![r] = 0]
  /\ Advance(r)
  /\ UNCHANGED <<resolved_entities, entity_resolution_map,
                 resolved_relationships, filter, local, halted, startDB>>
  /\ UNCHANGED <<storeVars, kgVars>>

\* A failure handler that rolls back by emptying the result tables.
C12_FailTruncatesTables(r) ==
  /\ Running(r)
  /\ pc[r] \in {"LoadingMentions", "PersistingEntities",
                "PersistingRelationships"}
  /\ pc' = [pc EXCEPT ![r] = "Failed"]
  /\ resolved_entities' = EmptyTable
  /\ entity_resolution_map' = EmptyTable
  /\ resolved_relationships' = EmptyTable
  /\ resolved_relationship_mentions' = EmptyTable
  /\ UNCHANGED <<filter, local, written, completed, halted, startDB>>
  /\ UNCHANGED <<storeVars, kgVars>>

\* An unrecoverable error: the source cannot be read (InputError), or a
\* persistence phase cannot commit (StorageError).  The run ends in Failed,
\* which keeps the last completed phase.
Fail(r) ==
  /\ Running(r)
  /\ pc[r] \in {"LoadingMentions", "PersistingEntities",
                "PersistingRelationships"}
  /\ pc' = [pc EXCEPT ![r] = "Failed"]
  /\ UNCHANGED <<tables, filter, local, written, completed, halted, startDB>>
  /\ UNCHANGED <<storeVars, kgVars>>

\* The process running the invocation is killed; what it has written stays.
Interrupt(r) ==
  /\ Running(r)
  /\ halted' = [halted EXCEPT ![r] = TRUE]
  /\ UNCHANGED <<tables, pc, filter, local, written, completed, startDB>>
  /\ UNCHANGED <<storeVars, kgVars>>

Step(r) ==
  \/ LoadMentions(r)
  \/ Group(r)
  \/ ResolveEntities(r)
  \/ UpsertEntities(r)
  \/ UpsertMap(r)
  \/ RemapRelationships(r)
  \/ UpsertRelationships(r)
  \/ InsertRelMentions(r)
  \/ Fail(r)
  \/ Interrupt(r)

Next ==
  \/ \E r \in RunIds, F \in Filters : StartSerial(r, F)
  \/ \E r \in RunIds : Step(r)

Spec == Init /\ [][Next]_vars

NextOverlapping ==
  \/ \E r \in RunIds, F \in Filters : StartOverlapping(r, F)
  \/ \E r \in RunIds : Step(r)

SpecOverlapping == Init /\ [][NextOverlapping]_vars

\* ------------------------------------------------------ graph store: data
\* MOCK_GRAPH, which fetchGraphSnapshot falls back to
MOCK_GRAPH == [nodes |-> <<>>, edges |-> <<>>, documents |-> <<>>]

\* What GET /api/graph and the resolved-graph fetch answer with.
RawSnapshot ==
  [nodes     |-> << [id |-> "node-1", documents |-> <<"doc-1">>,
                     triples |-> <<"t1">>],
                    [id |-> "node-2", documents |-> <<"doc-2", "doc-1">>,
                     triples |-> <<"t1", "t2">>] >>,
   edges     |-> << [id |-> "edge-1", source |-> "node-1",
                     target |-> "node-2", sourceDocumentId |-> "doc-1"] >>,
   documents |-> << [id |-> "doc-1"], [id |-> "doc-2"] >>]

ResolvedSnapshot ==
  [nodes     |-> << [id |-> "node-1", documents |-> <<"doc-1", "doc-2">>,
                     triples |-> <<"t1", "t2">>] >>,
   edges     |-> << [id |-> "edge-1", source |-> "node-1",
                     target |-> "node-1", sourceDocumentId |-> "doc-1"] >>,
   documents |-> << [id |-> "doc-1"], [id |-> "doc-2"] >>]

\* fetchGraphSnapshot(): the server's snapshot, or MOCK_GRAPH when the
\* request fails; it never rejects.
fetchGraphSnapshot(ok) == IF ok THEN RawSnapshot ELSE MOCK_GRAPH

\* What triggerExtractionForNode(nodeId, documentId) resolves with: nothing
\* new, or triples and an edge from the node to an entity that is no node of
\* the graph (the shape of its simulated result); it never rejects.
ExtractionResults(nodeId, documentId) ==
  { [triples |-> <<>>, edges |-> <<>>],
    [triples |-> <<"t1", "t2">>,
     edges   |-> << [id |-> "edge-2", source |-> nodeId,
                     target |-> "related-entity",
                     sourceDocumentId |-> documentId] >>] }

\* ------------------------------------------------- graph store: operators
Range(seq) == {seq[i] : i \in 1..Len(seq)}

Ids(seq) == {seq[i].id : i \in 1..Len(seq)}

\* Array.prototype.find by id: the index of the first match, 0 for none.
FindIndex(seq, id) ==
  IF id \in Ids(seq)
    THEN CHOOSE i \in 1..Len(seq) :
           seq[i].id = id /\ \A j \in 1..(i - 1) : seq[j].id # id
    ELSE 0

\* [...new Set(seq)]: first occurrences, in order.
Dedupe(seq) ==
  LET first(i) == \A j \in 1..(i - 1) : seq[j] # seq[i]
      F[i \in 0..Len(seq)] ==
        IF i = 0 THEN <<>>
        ELSE IF first(i) THEN Append(F[i - 1], seq[i]) ELSE F[i - 1]
  IN  F[Len(seq)]

\* b.forEach((x) => { if (!a.some((y) => y === x)) a.push(x) })
AppendMissing(a, b) ==
  LET F[i \in 0..Len(b)] ==
        IF i = 0 THEN a
        ELSE IF b[i] \in Range(F[i - 1]) THEN F[i - 1]
        ELSE Append(F[i - 1], b[i])
  IN  F[Len(b)]

\* b.forEach((x) => { if (!a.some((y) => y.id === x.id)) a.push(x) })
AppendMissingById(a, b) ==
  LET F[i \in 0..Len(b)] ==
        IF i = 0 THEN a
        ELSE IF b[i].id \in Ids(F[i - 1]) THEN F[i - 1]
        ELSE Append(F[i - 1], b[i])
  IN  F[Len(b)]

\* The refs an edit reads and writes.
Graph ==
  [nodes |-> nodes, edges |-> edges, documents |-> documents,
   selection |-> selection, metrics |-> metrics]

C15_IdMayRepeat(prefix, used) ==
  CASE prefix = "node" -> NodeIdPool
    [] prefix = "edge" -> EdgeIdPool
    [] prefix = "doc"  -> DocumentIdPool

\* createGraphId(prefix): a random UUID (or eight random base-36 digits),
\* taken never to repeat an id the store holds.
createGraphId(prefix, used) ==
  (CASE prefix = "node" -> NodeIdPool
     [] prefix = "edge" -> EdgeIdPool
     [] prefix = "doc"  -> DocumentIdPool) \ used

\* calculateGraphMetrics: the totals (connectivity, influence and
\* communities are derived from the same arrays and are left out).
calculateGraphMetrics(ns, es, ds) ==
  [totals |-> [nodes |-> Len(ns), edges |-> Len(es), documents |-> Len(ds)]]

recomputeMetrics(g) ==
  [g EXCEPT !.metrics = calculateGraphMetrics(g.nodes, g.edges, g.documents)]

\* ------------------------------------------------- graph store: handlers
\* Each handler as a function of the refs; `id` is what createGraphId gave.
addNode(g, id) ==
  recomputeMetrics(
    [g EXCEPT !.nodes = Append(@, [id |-> id, documents |-> <<>>,
                                   triples |-> <<>>]),
              !.selection = [nodeId |-> id, edgeId |-> NoId]])

\* The fields an update can carry (label, type, position, ...) are not
\* part of the model: what is left is the refresh of the metrics.
updateNode(g, nodeId) ==
  IF FindIndex(g.nodes, nodeId) = 0 THEN g ELSE recomputeMetrics(g)

removeNode(g, nodeId) ==
  LET keepNode(n) == n.id # nodeId
      keepEdge(e) == e.source # nodeId /\ e.target # nodeId
  IN  recomputeMetrics(
        [g EXCEPT !.nodes = SelectSeq(@, keepNode),
                  !.edges = SelectSeq(@, keepEdge),
                  !.selection = IF @.nodeId = nodeId
                                  THEN [nodeId |-> NoId, edgeId |-> NoId]
                                  ELSE @])

addEdge(g, id, source, target, sourceDocumentId) ==
  recomputeMetrics(
    [g EXCEPT !.edges = Append(@, [id |-> id, source |-> source,
                                   target |-> target,
                                   sourceDocumentId |-> sourceDocumentId]),
              !.selection = [nodeId |-> NoId, edgeId |-> id]])

updateEdge(g, edgeId) ==
  IF FindIndex(g.edges, edgeId) = 0 THEN g ELSE recomputeMetrics(g)

\* A removal that leaves the metrics as they were.
C17_RemoveEdgeKeepsMetrics(g, edgeId) ==
  LET keepEdge(e) == e.id # edgeId
  IN  [g EXCEPT !.edges = SelectSeq(@, keepEdge),
                !.selection = IF @.edgeId = edgeId
                                THEN [nodeId |-> NoId, edgeId |-> NoId]
                                ELSE @]

removeEdge(g, edgeId) ==
  LET keepEdge(e) == e.id # edgeId
  IN  recomputeMetrics(
        [g EXCEPT !.edges = SelectSeq(@, keepEdge),
                  !.selection = IF @.edgeId = edgeId
                                  THEN [nodeId |-> NoId, edgeId |-> NoId]
                                  ELSE @])

updateEdgeReferences(es, fromNodeId, toNodeId) ==
  [i \in 1..Len(es) |->
     [es[i] EXCEPT
        !.source = IF @ = fromNodeId THEN toNodeId ELSE @,
        !.target = IF @ = fromNodeId THEN toNodeId ELSE @]]

\* A merge that removes the duplicate before re-pointing its edges.
C14_MergeRemovesFirst(g, primaryId, duplicateId) ==
  LET p == FindIndex(g.nodes, primaryId)
      d == FindIndex(g.nodes, duplicateId)
  IN  IF primaryId = duplicateId \/ p = 0 \/ d = 0 THEN g
      ELSE
        LET mergedDocs    == Dedupe(g.nodes[p].documents \o g.nodes[d].documents)
            mergedTriples ==
              AppendMissing(g.nodes[p].triples, g.nodes[d].triples)
            assigned ==
              [g EXCEPT !.nodes[p].documents = mergedDocs,
                        !.nodes[p].triples = mergedTriples]
            removed == removeNode(assigned, duplicateId)
        IN  recomputeMetrics(
              [removed EXCEPT
                 !.edges = updateEdgeReferences(@, duplicateId, primaryId),
                 !.selection = [nodeId |-> primaryId, edgeId |-> NoId]])

mergeNodes(g, primaryId, duplicateId) ==
  LET p == FindIndex(g.nodes, primaryId)
      d == FindIndex(g.nodes, duplicateId)
  IN  IF primaryId = duplicateId \/ p = 0 \/ d = 0 THEN g
      ELSE
        LET mergedDocs    == Dedupe(g.nodes[p].documents \o g.nodes[d].documents)
            mergedTriples ==
              AppendMissing(g.nodes[p].triples, g.nodes[d].triples)
            repointed ==
              [g EXCEPT !.edges = updateEdgeReferences(@, duplicateId, primaryId),
                        !.nodes[p].documents = mergedDocs,
                        !.nodes[p].triples = mergedTriples]
        IN  recomputeMetrics(
              [removeNode(repointed, duplicateId) EXCEPT
                 !.selection = [nodeId |-> primaryId, edgeId |-> NoId]])

\* A payload naming a stored document updates it; otherwise the document is
\* appended under payload.id ?? createGraphId('doc').
addDocument(g, id) ==
  IF id \in Ids(g.documents) THEN recomputeMetrics(g)
  ELSE recomputeMetrics([g EXCEPT !.documents = Append(@, [id |-> id])])

\* A link that pushes without looking.
C16_LinkAlwaysPushes(g, nodeId, docId) ==
  LET n == FindIndex(g.nodes, nodeId)
  IN  IF n = 0 THEN g
      ELSE recomputeMetrics([g EXCEPT !.nodes[n].documents = Append(@, docId)])

linkDocumentToNode(g, nodeId, docId) ==
  LET n == FindIndex(g.nodes, nodeId)
  IN  IF n = 0 THEN g
      ELSE IF docId \in Range(g.nodes[n].documents) THEN g
      ELSE recomputeMetrics([g EXCEPT !.nodes[n].documents = Append(@, docId)])

unlinkDocumentFromNode(g, nodeId, docId) ==
  LET n == FindIndex(g.nodes, nodeId)
      keepDoc(x) == x # docId
  IN  IF n = 0 THEN g
      ELSE recomputeMetrics(
             [g EXCEPT !.nodes[n].documents = SelectSeq(@, keepDoc)])

\* applySnapshot(snapshot), less the visible documents
applySnapshot(g, snapshot) ==
  recomputeMetrics([g EXCEPT !.nodes = snapshot.nodes,
                             !.edges = snapshot.edges,
                             !.documents = snapshot.documents])

\* The part of triggerExtraction that follows the backend's answer.
mergeExtraction(g, nodeId, result) ==
  LET n == FindIndex(g.nodes, nodeId)
  IN  IF n = 0 THEN g
      ELSE recomputeMetrics(
             [g EXCEPT
                !.nodes[n].triples = AppendMissing(@, result.triples),
                !.edges = AppendMissingById(@, result.edges)])

\* --------------------------------------------- graph store: computed refs
nodeHasVisibleDoc(ns, selected, nodeId) ==
  LET n == FindIndex(ns, nodeId)
  IN  n # 0 /\ \E d \in Range(ns[n].documents) : d \in selected

\* visibleEdges: every edge while no document is selected
visibleEdges(ns, es, selected) ==
  LET keep(e) ==
        \/ e.sourceDocumentId # NoId /\ e.sourceDocumentId \in selected
        \/ nodeHasVisibleDoc(ns, selected, e.source)
        \/ nodeHasVisibleDoc(ns, selected, e.target)
  IN  IF selected = {} THEN es ELSE SelectSeq(es, keep)

\* visibleNodes: every node while no document is selected
visibleNodes(ns, es, selected) ==
  LET shown == Range(visibleEdges(ns, es, selected))
      incidentIds == {e.source : e \in shown} \cup {e.target : e \in shown}
      keep(n) ==
        \/ \E d \in Range(n.documents) : d \in selected
        \/ n.id \in incidentIds
  IN  IF selected = {} THEN ns ELSE SelectSeq(ns, keep)

\* --------------------------------------------- graph store: edit actions
Commit(g) ==
  /\ nodes' = g.nodes
  /\ edges' = g.edges
  /\ documents' = g.documents
  /\ selection' = g.selection
  /\ metrics' = g.metrics

graphRefs == <<nodes, edges, documents, selection, metrics>>

\* One more edit is made.
Edited ==
  /\ edits < MaxEdits
  /\ edits' = edits + 1

asyncRefs == <<isLoading, lastSavedAt, errorMessage, graphMode, inflight,
               appliedFrom>>

AddNode(id) ==
  /\ id \in createGraphId("node", Ids(nodes))
  /\ Edited
  /\ Commit(addNode(Graph, id))
  /\ UNCHANGED <<visibleDocumentIds, asyncRefs, erVars, kgVars>>

UpdateNode(nodeId) ==
  /\ Edited
  /\ Commit(updateNode(Graph, nodeId))
  /\ UNCHANGED <<visibleDocumentIds, asyncRefs, erVars, kgVars>>

RemoveNode(nodeId) ==
  /\ Edited
  /\ Commit(removeNode(Graph, nodeId))
  /\ UNCHANGED <<visibleDocumentIds, asyncRefs, erVars, kgVars>>

\* The canvas connects two nodes of the graph.
AddEdge(id, source, target, sourceDocumentId) ==
  /\ id \in createGraphId("edge", Ids(edges))
  /\ source \in Ids(nodes) /\ target \in Ids(nodes)
  /\ sourceDocumentId \in {NoId} \cup Ids(documents)
  /\ Edited
  /\ Commit(addEdge(Graph, id, source, target, sourceDocumentId))
  /\ UNCHANGED <<visibleDocumentIds, asyncRefs, erVars, kgVars>>

UpdateEdge(edgeId) ==
  /\ Edited
  /\ Commit(updateEdge(Graph, edgeId))
  /\ UNCHANGED <<visibleDocumentIds, asyncRefs, erVars, kgVars>>

RemoveEdge(edgeId) ==
  /\ Edited
  /\ Commit(removeEdge(Graph, edgeId))
  /\ UNCHANGED <<visibleDocumentIds, asyncRefs, erVars, kgVars>>

MergeNodes(primaryId, duplicateId) ==
  /\ Edited
  /\ Commit(mergeNodes(Graph, primaryId, duplicateId))
  /\ UNCHANGED <<visibleDocumentIds, asyncRefs, erVars, kgVars>>

\* payloadId is NoId for a payload without an id.
AddDocument(payloadId, id) ==
  /\ IF payloadId # NoId THEN id = payloadId
     ELSE id \in createGraphId("doc", Ids(documents))
  /\ Edited
  /\ Commit(addDocument(Graph, id))
  /\ UNCHANGED <<visibleDocumentIds, asyncRefs, erVars, kgVars>>

\* updateDocument changes fields of a document the model does not hold and
\* does not refresh the metrics.
UpdateDocument(docId) ==
  /\ docId \in Ids(documents)
  /\ UNCHANGED vars

\* The details panel links one of the store's documents.
LinkDocumentToNode(nodeId, docId) ==
  /\ docId \in Ids(documents)
  /\ Edited
  /\ Commit(linkDocumentToNode(Graph, nodeId, docId))
  /\ UNCHANGED <<visibleDocumentIds, asyncRefs, erVars, kgVars>>

UnlinkDocumentFromNode(nodeId, docId) ==
  /\ Edited
  /\ Commit(unlinkDocumentFromNode(Graph, nodeId, docId))
  /\ UNCHANGED <<visibleDocumentIds, asyncRefs, erVars, kgVars>>

SetVisibleDocuments(docIds) ==
  /\ visibleDocumentIds' = docIds
  /\ UNCHANGED <<graphRefs, asyncRefs, edits, erVars, kgVars>>

ToggleDocumentVisibility(docId) ==
  /\ visibleDocumentIds' =
       IF docId \in visibleDocumentIds
         THEN visibleDocumentIds \ {docId}
         ELSE visibleDocumentIds \cup {docId}
  /\ UNCHANGED <<graphRefs, asyncRefs, edits, erVars, kgVars>>

SelectAllDocuments ==
  /\ visibleDocumentIds' = Ids(documents)
  /\ UNCHANGED <<graphRefs, asyncRefs, edits, erVars, kgVars>>

ClearVisibleDocuments ==
  /\ visibleDocumentIds' = {}
  /\ UNCHANGED <<graphRefs, asyncRefs, edits, erVars, kgVars>>

\* -------------------------------------------- graph store: async actions
\* A pending async action is its stack of calls: the action itself, then the
\* load it awaits (or what that load ended with).  Each action below runs
\* from one await to the next.
CanCall == BagCardinality(inflight) < MaxInFlight

Push(stack) == inflight (+) SetToBag({stack})

Pop(stack) == inflight (-) SetToBag({stack})

\* isLoading.value = true; errorMessage.value = null; ... await
Begin(stack) ==
  /\ isLoading' = TRUE
  /\ errorMessage' = NoId
  /\ inflight' = Push(stack)

SaveGraph ==
  /\ CanCall /\ lastSavedAt < MaxSaves
  /\ Begin(<<"saveGraph">>)
  /\ UNCHANGED <<graphRefs, visibleDocumentIds, lastSavedAt, graphMode,
                 appliedFrom, edits, erVars, kgVars>>

\* saveGraphSnapshot(snapshot): whether the request was accepted (ok) or not,
\* the promise resolves; a failed request is logged and ignored.
saveGraphSnapshot(ok) == IF ok THEN "resolved" ELSE "resolved"

\* saveGraph after the await: the try's remainder, or its catch, and finally.
SaveGraphSettles(ok) ==
  /\ BagIn(<<"saveGraph">>, inflight)
  /\ IF saveGraphSnapshot(ok) = "resolved"
       THEN /\ lastSavedAt' = lastSavedAt + 1
            /\ UNCHANGED errorMessage
       ELSE /\ errorMessage' = "error"
            /\ UNCHANGED lastSavedAt
  /\ isLoading' = FALSE
  /\ inflight' = Pop(<<"saveGraph">>)
  /\ UNCHANGED <<graphRefs, visibleDocumentIds, graphMode, appliedFrom,
                 edits, erVars, kgVars>>

LoadGraph ==
  /\ CanCall
  /\ Begin(<<"loadGraph">>)
  /\ UNCHANGED <<graphRefs, visibleDocumentIds, lastSavedAt, graphMode,
                 appliedFrom, edits, erVars, kgVars>>

LoadResolvedGraph ==
  /\ CanCall
  /\ Begin(<<"loadResolvedGraph">>)
  /\ UNCHANGED <<graphRefs, visibleDocumentIds, lastSavedAt, graphMode,
                 appliedFrom, edits, erVars, kgVars>>

\* The fetch of a load resolves with `snapshot`, or rejects; the load returns
\* to the action that awaits it, if any.
LoadSettles(stack, ok, snapshot, from) ==
  /\ BagIn(stack, inflight)
  /\ IF ok
       THEN /\ Commit(applySnapshot(Graph, snapshot))
            /\ visibleDocumentIds' = Ids(snapshot.documents)
            /\ appliedFrom' = from
            /\ UNCHANGED errorMessage
       ELSE /\ errorMessage' = "error"
            /\ UNCHANGED <<graphRefs, visibleDocumentIds, appliedFrom>>
  /\ isLoading' = FALSE
  /\ inflight' =
       IF Len(stack) = 1 THEN Pop(stack)
       ELSE Pop(stack) (+)
              SetToBag({<<stack[1], IF ok THEN "returned" ELSE "threw">>})
  /\ UNCHANGED <<lastSavedAt, graphMode, edits, erVars, kgVars>>

\* fetchGraphSnapshot resolves, with the server's snapshot or its fallback.
LoadGraphSettles(stack, ok) ==
  /\ stack[Len(stack)] = "loadGraph"
  /\ LoadSettles(stack, TRUE, fetchGraphSnapshot(ok), "raw")

LoadResolvedGraphSettles(stack, ok) ==
  /\ stack[Len(stack)] = "loadResolvedGraph"
  /\ LoadSettles(stack, ok, ResolvedSnapshot, "resolved")

DeleteDocument ==
  /\ CanCall
  /\ documents # <<>>
  /\ Begin(<<"deleteDocument">>)
  /\ UNCHANGED <<graphRefs, visibleDocumentIds, lastSavedAt, graphMode,
                 appliedFrom, edits, erVars, kgVars>>

\* deleteDocumentRequest answers and loadGraph() is called, or it fails.
DeleteDocumentRequestSettles(ok) ==
  /\ BagIn(<<"deleteDocument">>, inflight)
  /\ IF ok
       THEN /\ isLoading' = TRUE
            /\ errorMessage' = NoId
            /\ inflight' = Pop(<<"deleteDocument">>) (+)
                             SetToBag({<<"deleteDocument", "loadGraph">>})
       ELSE /\ errorMessage' = "error"
            /\ isLoading' = FALSE
            /\ inflight' = Pop(<<"deleteDocument">>)
  /\ UNCHANGED <<graphRefs, visibleDocumentIds, lastSavedAt, graphMode,
                 appliedFrom, edits, erVars, kgVars>>

RunEntityResolution ==
  /\ CanCall
  /\ Begin(<<"runEntityResolution">>)
  /\ UNCHANGED <<graphRefs, visibleDocumentIds, lastSavedAt, graphMode,
                 appliedFrom, edits, erVars, kgVars>>

\* runEntityResolutionApi answers (and loadResolvedGraph() is called in
\* resolved mode), or it fails.
RunEntityResolutionApiSettles(ok) ==
  /\ BagIn(<<"runEntityResolution">>, inflight)
  /\ IF ok /\ graphMode = "resolved"
       THEN /\ isLoading' = TRUE
            /\ errorMessage' = NoId
            /\ inflight' =
                 Pop(<<"runEntityResolution">>) (+)
                   SetToBag({<<"runEntityResolution", "loadResolvedGraph">>})
       ELSE /\ errorMessage' = IF ok THEN errorMessage ELSE "error"
            /\ isLoading' = FALSE
            /\ inflight' = Pop(<<"runEntityResolution">>)
  /\ UNCHANGED <<graphRefs, visibleDocumentIds, lastSavedAt, graphMode,
                 appliedFrom, edits, erVars, kgVars>>

\* setGraphMode(mode): nothing for the current mode; else the mode is set and
\* the matching load is called.
SetGraphMode(mode) ==
  /\ CanCall
  /\ IF graphMode = mode
       THEN UNCHANGED <<graphMode, isLoading, errorMessage, inflight>>
       ELSE /\ graphMode' = mode
            /\ Begin(<<"setGraphMode",
                       IF mode = "resolved" THEN "loadResolvedGraph"
                                            ELSE "loadGraph">>)
  /\ UNCHANGED <<graphRefs, visibleDocumentIds, lastSavedAt, appliedFrom, edits, erVars, kgVars>>

\* The action that awaited a load goes on: deleteDocument and
\* runEntityResolution through their catch and finally, setGraphMode to its
\* end.
Resume(stack) ==
  /\ BagIn(stack, inflight)
  /\ Len(stack) = 2 /\ stack[2] \in {"returned", "threw"}
  /\ IF stack[1] = "setGraphMode"
       THEN UNCHANGED <<isLoading, errorMessage>>
       ELSE /\ errorMessage' = IF stack[2] = "threw" THEN "error"
                                                     ELSE errorMessage
            /\ isLoading' = FALSE
  /\ inflight' = Pop(stack)
  /\ UNCHANGED <<graphRefs, visibleDocumentIds, lastSavedAt, graphMode,
                 appliedFrom, edits, erVars, kgVars>>

\* The details panel starts an extraction for a node and a document of the
\* graph.
TriggerExtraction(nodeId, documentId) ==
  /\ CanCall
  /\ nodeId \in Ids(nodes) /\ documentId \in Ids(documents)
  /\ Begin(<<"triggerExtraction", nodeId, documentId>>)
  /\ UNCHANGED <<graphRefs, visibleDocumentIds, lastSavedAt, graphMode,
                 appliedFrom, edits, erVars, kgVars>>

\* triggerExtractionForNode resolves with a result.
TriggerExtractionSettles(stack) ==
  /\ BagIn(stack, inflight)
  /\ stack[1] = "triggerExtraction"
  /\ \E result \in ExtractionResults(stack[2], stack[3]) :
       Commit(mergeExtraction(Graph, stack[2], result))
  /\ isLoading' = FALSE
  /\ inflight' = Pop(stack)
  /\ UNCHANGED <<visibleDocumentIds, lastSavedAt, errorMessage, graphMode,
                 appliedFrom, edits, erVars, kgVars>>

\* ------------------------------------------- graph store: specifications
Edit ==
  \/ \E id \in NodeIdPool : AddNode(id)
  \/ \E nodeId \in NodeIdPool : UpdateNode(nodeId)
  \/ \E nodeId \in NodeIdPool : RemoveNode(nodeId)
  \/ \E id \in EdgeIdPool, source, target \in NodeIdPool,
        sourceDocumentId \in DocumentIdPool \cup {NoId} :
       AddEdge(id, source, target, sourceDocumentId)
  \/ \E edgeId \in EdgeIdPool : UpdateEdge(edgeId)
  \/ \E edgeId \in EdgeIdPool : RemoveEdge(edgeId)
  \/ \E primaryId, duplicateId \in NodeIdPool :
       MergeNodes(primaryId, duplicateId)
  \/ \E payloadId \in DocumentIdPool \cup {NoId}, id \in DocumentIdPool :
       AddDocument(payloadId, id)
  \/ \E docId \in DocumentIdPool : UpdateDocument(docId)
  \/ \E nodeId \in NodeIdPool, docId \in DocumentIdPool :
       LinkDocumentToNode(nodeId, docId)
  \/ \E nodeId \in NodeIdPool, docId \in DocumentIdPool :
       UnlinkDocumentFromNode(nodeId, docId)

Filter ==
  \/ \E docIds \in SUBSET DocumentIdPool : SetVisibleDocuments(docIds)
  \/ \E docId \in DocumentIdPool : ToggleDocumentVisibility(docId)
  \/ SelectAllDocuments
  \/ ClearVisibleDocuments

Load ==
  \/ LoadGraph
  \/ \E stack \in DOMAIN inflight, ok \in BOOLEAN : LoadGraphSettles(stack, ok)

Extract ==
  \/ \E nodeId \in NodeIdPool, documentId \in DocumentIdPool :
       TriggerExtraction(nodeId, documentId)
  \/ \E stack \in DOMAIN inflight : TriggerExtractionSettles(stack)

Loads ==
  \/ Load
  \/ Extract
  \/ LoadResolvedGraph
  \/ \E stack \in DOMAIN inflight, ok \in BOOLEAN :
       LoadResolvedGraphSettles(stack, ok)

Calls ==
  \/ SaveGraph
  \/ \E ok \in BOOLEAN : SaveGraphSettles(ok)
  \/ DeleteDocument
  \/ \E ok \in BOOLEAN : DeleteDocumentRequestSettles(ok)
  \/ RunEntityResolution
  \/ \E ok \in BOOLEAN : RunEntityResolutionApiSettles(ok)
  \/ \E mode \in {"raw", "resolved"} : SetGraphMode(mode)
  \/ \E stack \in DOMAIN inflight : Resume(stack)

\* Editing a graph that is loaded and extended by extraction.
NextStore == Edit \/ Load \/ Extract

SpecStore == Init /\ [][NextStore]_vars

\* Editing a loaded graph and choosing the visible documents.
NextFilter == Edit \/ Load \/ Filter

SpecFilter == Init /\ [][NextFilter]_vars

\* The asynchronous actions, overlapping, on the graphs the backend serves.
NextAsync == Loads \/ Calls \/ Filter

SpecAsync == Init /\ [][NextAsync]_vars

\* ------------------------------------------------ KG viewer page: resolver
\* Entity ids, as the sequences of their characters.
PersonAm   == <<"p", ":", "A", "m">>
RegionAm   == <<"r", ":", "a", "m">>
RegionA_M  == <<"r", ":", "a", "-", "m">>
PersonNone == <<"p", ":", " ">>
Bo         == <<" ", "b", " ", " ", "o">>

KgIds == {PersonAm, RegionAm, RegionA_M, PersonNone, Bo}

\* The entity lists of the KG files: none, one or two ids.
KgEntityLists ==
  {<<>>} \cup {<<a>> : a \in KgIds} \cup {<<a, b>> : a, b \in KgIds}

\* The KG files: an entity list and no relation, or one between ids of the
\* list or the id Bo, which the list need not hold.
KgPayloads ==
  {[entities |-> es, relations |-> <<>>] : es \in KgEntityLists}
  \cup
  UNION {{[entities |-> es, relations |-> <<(<<s, "in", t>>)>>] :
            s, t \in Range(es) \cup {Bo}} : es \in KgEntityLists}

\* s.indexOf(c), counted from 1; 0 when c does not occur.
IndexOf(s, c) ==
  IF \E i \in 1..Len(s) : s[i] = c
    THEN CHOOSE i \in 1..Len(s) : s[i] = c /\ \A j \in 1..(i - 1) : s[j] # c
    ELSE 0

\* c.toLowerCase()
ToLowerCase(c) == IF c = "A" THEN "a" ELSE c

\* s.trim().toLowerCase().replace(/\s+/g, ' ')
TrimLowerSqueeze(s) ==
  LET inner(i) == /\ \E j \in 1..i : s[j] # " "
                  /\ \E j \in i..Len(s) : s[j] # " "
      keep(i) == IF s[i] # " " THEN TRUE
                 ELSE inner(i) /\ s[i - 1] # " "
      F[i \in 0..Len(s)] ==
        IF i = 0 THEN <<>>
        ELSE IF keep(i) THEN Append(F[i - 1], ToLowerCase(s[i])) ELSE F[i - 1]
  IN  F[Len(s)]

\* /[a-z0-9]/ over the characters of the ids
IsAlnum(c) == c \in {"a", "b", "m", "o", "p", "r"}

\* normalizeKey(id) of resolveKgSimple
normalizeKey(id, ignorePrefix) ==
  LET idx == IndexOf(id, ":")
      s   == IF ignorePrefix /\ idx > 0
               THEN SubSeq(id, idx + 1, Len(id)) ELSE id
  IN  SelectSeq(TrimLowerSqueeze(s), IsAlnum)

\* The text of an id before its first ':', if it has one.
HasPrefix(id) == IndexOf(id, ":") > 0

TypePrefix(id) == SubSeq(id, 1, IndexOf(id, ":") - 1)

\* map.get(k) || k
GetOr(map, k) == IF k \in DOMAIN map THEN map[k] ELSE k

\* resolveKgSimple(payload, pruneIsolates, ignorePrefix): the resolved
\* payload, with the oldToNew map the call built.
resolveKgSimple(payload, pruneIsolates, ignorePrefix) ==
  LET entities  == payload.entities
      relations == payload.relations
      \* the loop over entities: buckets and oldToNew after i entities
      Loop[i \in 0..Len(entities)] ==
        IF i = 0 THEN [buckets |-> EmptyTable, oldToNew |-> EmptyTable,
                       canon |-> <<>>]
        ELSE LET prev == Loop[i - 1]
                 eid  == entities[i]
                 key  == normalizeKey(eid, ignorePrefix)
             IN  IF key = <<>>
                   THEN [prev EXCEPT !.oldToNew = (eid :> eid) @@ @]
                 ELSE IF key \in DOMAIN prev.buckets
                   THEN [prev EXCEPT
                           !.oldToNew = (eid :> prev.buckets[key]) @@ @]
                 ELSE [buckets  |-> (key :> eid) @@ prev.buckets,
                       oldToNew |-> (eid :> eid) @@ prev.oldToNew,
                       canon    |-> Append(prev.canon, eid)]
      done == Loop[Len(entities)]
      newRelations ==
        [i \in 1..Len(relations) |->
           <<GetOr(done.oldToNew, relations[i][1]), relations[i][2],
             GetOr(done.oldToNew, relations[i][3])>>]
      dedupRel == Dedupe(newRelations)
      Ends[i \in 0..Len(dedupRel)] ==
        IF i = 0 THEN <<>>
        ELSE Ends[i - 1] \o <<dedupRel[i][1], dedupRel[i][3]>>
      referenced == Dedupe(Ends[Len(dedupRel)])
      finalNodes == IF pruneIsolates THEN referenced
                    ELSE Dedupe(referenced \o done.canon)
  IN  [entities |-> finalNodes, relations |-> dedupRel,
       oldToNew |-> done.oldToNew]

\* ------------------------------------------------- KG viewer page: actions
\* kgInput change: a file holding a payload is chosen.
KgInputChange(payload) ==
  /\ kgLoads < MaxKgLoads
  /\ kgLoads' = kgLoads + 1
  /\ kgPayload' = payload
  /\ UNCHANGED <<chkResolve, chkPrune, rendered, oldToNew, erVars, storeVars>>

\* kgInput change: the file is not a {entities: [], relations: []} object.
KgInputInvalid ==
  /\ kgLoads < MaxKgLoads
  /\ kgLoads' = kgLoads + 1
  /\ kgPayload' = NoPayload
  /\ UNCHANGED <<chkResolve, chkPrune, rendered, oldToNew, erVars, storeVars>>

ToggleResolve ==
  /\ chkResolve' = ~chkResolve
  /\ UNCHANGED <<kgPayload, chkPrune, rendered, oldToNew, kgLoads, erVars,
                 storeVars>>

TogglePrune ==
  /\ chkPrune' = ~chkPrune
  /\ UNCHANGED <<kgPayload, chkResolve, rendered, oldToNew, kgLoads, erVars,
                 storeVars>>

\* btnRenderKG click: the resolved payload replaces window.__kgPayload.
RenderKG ==
  /\ kgPayload # NoPayload
  /\ IF chkResolve
       THEN LET r == resolveKgSimple(kgPayload, chkPrune, TRUE)
                pl == [entities |-> r.entities, relations |-> r.relations]
            IN  /\ kgPayload' = pl
                /\ rendered' = pl
                /\ oldToNew' = r.oldToNew
       ELSE /\ rendered' = kgPayload
            /\ UNCHANGED <<kgPayload, oldToNew>>
  /\ UNCHANGED <<chkResolve, chkPrune, kgLoads, erVars, storeVars>>

\* btnRenderKG3D click: window.__kgPayload is left as it is.
RenderKG3D ==
  /\ kgPayload # NoPayload
  /\ IF chkResolve
       THEN LET r == resolveKgSimple(kgPayload, chkPrune, TRUE)
            IN  /\ rendered' = [entities |-> r.entities,
                                relations |-> r.relations]
                /\ oldToNew' = r.oldToNew
       ELSE /\ rendered' = kgPayload
            /\ UNCHANGED oldToNew
  /\ UNCHANGED <<kgPayload, chkResolve, chkPrune, kgLoads, erVars, storeVars>>

NextKg ==
  \/ \E payload \in KgPayloads : KgInputChange(payload)
  \/ KgInputInvalid
  \/ ToggleResolve
  \/ TogglePrune
  \/ RenderKG
  \/ RenderKG3D

SpecKg == Init /\ [][NextKg]_vars

\* ------------------------------------------------------------------ claims
\* Every invocation has either not been made or has returned its stats.
Quiet == \A r \in RunIds : pc[r] \in {"Idle", "Done"}

\* Invocation r has returned and no later invocation has been made.
Latest(r) == pc[r] = "Done" /\ \A q \in RunIds : q > r => pc[q] = "Idle"

\* The provenance rows stored for one edge.
ProvenanceOf(id) ==
  {m \in DOMAIN resolved_relationship_mentions : m.resolved_rel_id = id}

\* C1: resolve(filter) invoked twice in succession on unchanged raw data
\* leaves the four tables, counts and weights included, as they were before
\* the second call.
C1_SecondRunChangesNothing ==
  \A r \in RunIds :
    (/\ r > 1
     /\ Latest(r)
     /\ pc[r - 1] = "Done"
     /\ filter[r] = filter[r - 1])
    => DB = startDB[r]

\* Every relationship of the filter's documents references only mentions that
\* are mapped already, belong to the filter's documents, or are never
\* canonicalized.
EndpointsKnown(map, F) ==
  \A q \in load_relationships(F) :
    \A e \in {Relationships[q].subject, Relationships[q].object} :
      \/ e \in DOMAIN map
      \/ Entities[e].document_id \in F
      \/ NormName[e] = <<>>

C3_WeightIsDistinctRelationshipCount ==
  Quiet =>
    \A id \in DOMAIN resolved_relationships :
      resolved_relationships[id].weight =
        Cardinality({m.relationship_id : m \in ProvenanceOf(id)})

\* C4: a raw relationship_id has at most one provenance row.
C4_OneProvenanceRowPerRelationship ==
  /\ \A m \in DOMAIN resolved_relationship_mentions :
       resolved_relationship_mentions[m] = 1
  /\ \A m, n \in DOMAIN resolved_relationship_mentions :
       m.relationship_id = n.relationship_id => m = n

\* C5: two mentions of different entity types are never mapped to the same
\* resolved_id.
C5_NoCrossTypeMerge ==
  \A a, b \in DOMAIN entity_resolution_map :
    Entities[a].type # Entities[b].type
      => entity_resolution_map[a].resolved_id
           # entity_resolution_map[b].resolved_id

\* Two mapped mentions of different types whose names normalize alike.
C5_Witness ==
  \E a, b \in DOMAIN entity_resolution_map :
    /\ Entities[a].type # Entities[b].type
    /\ NormName[a] = NormName[b]
    /\ Entities[a].name # Entities[b].name

\* C6: after every run a canonical's mention_count and doc_count are the
\* number of mentions, and of their distinct documents, mapped to it.
C6_CountsCoverMappedMentions ==
  Quiet =>
    \A rid \in DOMAIN resolved_entities :
      LET ms == {e \in DOMAIN entity_resolution_map :
                   entity_resolution_map[e].resolved_id = rid}
      IN  /\ resolved_entities[rid].mention_count = Cardinality(ms)
          /\ resolved_entities[rid].doc_count =
               Cardinality({Entities[e].document_id : e \in ms})

C8_Order ==
  <<"Idle", "LoadingMentions", "Grouping", "ResolvingEntities",
    "PersistingEntities", "RemappingRelationships",
    "PersistingRelationships", "Done">>

\* C8: a run moves through the phases in order (or to Failed), enters
\* RemappingRelationships only with its canonicals and mapping stored, enters
\* Done only with its edges and provenance stored, and never leaves Done or
\* Failed.
C8_PhasesInOrder ==
  [][\A r \in RunIds :
       /\ pc[r] \in {"Done", "Failed"} => pc'[r] = pc[r]
       /\ pc'[r] # pc[r] =>
            \/ pc'[r] = "Failed"
            \/ \E i \in 1..(Len(C8_Order) - 1) :
                 pc[r] = C8_Order[i] /\ pc'[r] = C8_Order[i + 1]
       /\ (pc'[r] # pc[r] /\ pc'[r] = "RemappingRelationships") =>
            /\ \A rid \in DOMAIN local[r].resolved :
                 rid \in DOMAIN resolved_entities'
            /\ \A e \in DOMAIN local[r].mapping :
                 /\ e \in DOMAIN entity_resolution_map'
                 /\ entity_resolution_map'[e] = local[r].mapping[e]
       /\ (pc'[r] # pc[r] /\ pc'[r] = "Done") =>
            /\ \A id \in DOMAIN local[r].edges :
                 id \in DOMAIN resolved_relationships'
            /\ \A m \in local[r].rel_mentions :
                 m \in DOMAIN resolved_relationship_mentions'
     ]_vars

\* A run over both documents has gone through every phase and returned.
C8_Witness ==
  \E r \in RunIds :
    /\ pc[r] = "Done"
    /\ completed[r] = "PersistingRelationships"
    /\ filter[r] = Docs
    /\ DOMAIN local[r].mapping # {}

\* C9: when a run is interrupted and resolve() is invoked again with the same
\* filter, the tables end as one uninterrupted run would have left them.
C9_RetryAfterInterruptConverges ==
  \A r \in RunIds :
    (/\ r > 1
     /\ Latest(r)
     /\ halted[r - 1]
     /\ filter[r] = filter[r - 1])
    => DB = ResolveRun(startDB[r - 1], filter[r])

\* C10: overlapping runs over the same raw rows leave the tables as one
\* serial run does.
C10_OverlappingRunsConverge ==
  (/\ \A r \in RunIds : pc[r] = "Done" /\ filter[r] = filter[1]
   /\ \E r \in RunIds : r > 1 /\ startDB[r] = EmptyDB)
  => DB = ResolveRun(EmptyDB, filter[1])

\* C11: when a persistence phase cannot commit, the run ends in Failed with
\* what earlier phases committed left in place, and a later run with the same
\* filter completes the work: the tables end as one run without the failure
\* would have left them.
C11_RetryAfterStorageFailureCompletes ==
  \A r \in RunIds :
    (/\ r > 1
     /\ Latest(r)
     /\ pc[r - 1] = "Failed"
     /\ completed[r - 1] # "Idle"
     /\ filter[r] = filter[r - 1])
    => DB = ResolveRun(startDB[r - 1], filter[r])

\* C12: a run that fails while loading its input (malformed filter or
\* unreadable source) has written nothing: while no later run has started,
\* the four tables are as they were when resolve() was called.
C12_InputErrorWritesNothing ==
  \A r \in RunIds :
    (/\ pc[r] = "Failed"
     /\ completed[r] = "Idle"
     /\ \A q \in RunIds : q > r => pc[q] = "Idle")
    => DB = startDB[r]

\* A second run failed while loading, after a first run had filled the
\* tables.
C12_Witness ==
  /\ pc[1] = "Done"
  /\ pc[2] = "Failed"
  /\ completed[2] = "Idle"
  /\ DOMAIN resolved_relationships # {}

EditLeaves == <<visibleDocumentIds, isLoading, lastSavedAt, errorMessage,
                graphMode, inflight, appliedFrom>>

\* The number of times x occurs in seq.
Occurrences(seq, x) == Cardinality({i \in 1..Len(seq) : seq[i] = x})

NoRepeats(seq) == \A i, j \in 1..Len(seq) : seq[i] = seq[j] => i = j

NodeOf(ns, id) == ns[FindIndex(ns, id)]

\* C14: mergeNodes(primaryId, duplicateId) on two distinct nodes of the graph
\* removes the duplicate and nothing else, leaves the primary with the
\* repeat-free union of the documents and of the triples of both, and keeps
\* every edge, an end at the duplicate moved to the primary; with equal ids or
\* a missing node nothing changes.
C14_MergeKeepsAssociations ==
  [][\A primaryId, duplicateId \in NodeIdPool :
       MergeNodes(primaryId, duplicateId) =>
         IF /\ primaryId # duplicateId
            /\ primaryId \in Ids(nodes) /\ duplicateId \in Ids(nodes)
           THEN
             LET p  == NodeOf(nodes, primaryId)
                 d  == NodeOf(nodes, duplicateId)
                 p2 == NodeOf(nodes', primaryId)
             IN  /\ Ids(nodes') = Ids(nodes) \ {duplicateId}
                 /\ Len(nodes') = Len(nodes) - 1
                 /\ \A n \in Range(nodes) :
                      n.id \notin {primaryId, duplicateId}
                        => n \in Range(nodes')
                 /\ Range(p2.documents)
                      = Range(p.documents) \cup Range(d.documents)
                 /\ NoRepeats(p2.documents)
                 /\ Range(p2.triples) = Range(p.triples) \cup Range(d.triples)
                 /\ NoRepeats(p2.triples)
                 /\ Len(edges') = Len(edges)
                 /\ \A i \in 1..Len(edges) :
                      /\ edges'[i].id = edges[i].id
                      /\ edges'[i].sourceDocumentId = edges[i].sourceDocumentId
                      /\ edges'[i].source =
                           IF edges[i].source = duplicateId
                             THEN primaryId ELSE edges[i].source
                      /\ edges'[i].target =
                           IF edges[i].target = duplicateId
                             THEN primaryId ELSE edges[i].target
           ELSE UNCHANGED <<graphRefs, EditLeaves>>
     ]_vars

\* The two nodes of the raw snapshot, which share a document and a triple and
\* are joined by an edge, have been merged into node-1.
C14_Witness ==
  /\ appliedFrom = "raw" /\ edits = 1
  /\ Len(nodes) = 1
  /\ nodes[1] = [id |-> "node-1", documents |-> <<"doc-1", "doc-2">>,
                 triples |-> <<"t1", "t2">>]
  /\ Len(edges) = 1
  /\ edges[1].source = "node-1" /\ edges[1].target = "node-1"

C16_LinkIsIdempotent ==
  [][\A nodeId \in NodeIdPool, docId \in DocumentIdPool :
       LinkDocumentToNode(nodeId, docId) =>
         IF nodeId \in Ids(nodes)
           THEN /\ Occurrences(NodeOf(nodes', nodeId).documents, docId) = 1
                /\ Occurrences(NodeOf(nodes, nodeId).documents, docId) = 1
                     => UNCHANGED <<graphRefs, EditLeaves>>
           ELSE UNCHANGED <<graphRefs, EditLeaves>>
     ]_vars

\* doc-2 has been linked to node-1 of the raw snapshot, and linked again.
C16_Witness ==
  /\ appliedFrom = "raw" /\ edits = 2
  /\ nodes = [RawSnapshot.nodes EXCEPT ![1].documents = <<"doc-1", "doc-2">>]

\* C17: the totals of the metrics are the lengths of nodes, edges and
\* documents, in every state the store's actions lead to.
C17_TotalsAreLengths ==
  /\ metrics.totals.nodes = Len(nodes)
  /\ metrics.totals.edges = Len(edges)
  /\ metrics.totals.documents = Len(documents)

\* A node of the raw snapshot has been removed, and its edge with it.
C17_Witness ==
  /\ appliedFrom = "raw" /\ edits = 1
  /\ metrics.totals = [nodes |-> 1, edges |-> 0, documents |-> 2]

\* A node is linked to a checked document.
LinkedToChecked(n) == \E d \in Range(n.documents) : d \in visibleDocumentIds

\* An edge has a checked source document or an end linked to one.
TouchesChecked(e) ==
  \/ e.sourceDocumentId \in visibleDocumentIds
  \/ \E n \in Range(nodes) : n.id \in {e.source, e.target} /\ LinkedToChecked(n)

\* A node none of whose documents is checked and none of whose edges is shown
\* is not shown; an edge whose source document and ends' documents are all
\* unchecked is not shown.
UncheckedIsHidden ==
  LET shownNodes == Range(visibleNodes(nodes, edges, visibleDocumentIds))
      shownEdges == Range(visibleEdges(nodes, edges, visibleDocumentIds))
  IN  /\ \A n \in Range(nodes) :
           (/\ ~LinkedToChecked(n)
            /\ \A e \in shownEdges : n.id \notin {e.source, e.target})
           => n \notin shownNodes
      /\ \A e \in Range(edges) : ~TouchesChecked(e) => e \notin shownEdges

\* C18: for every choice of checked documents, none checked included, what is
\* linked to unchecked documents only is not shown: a node none of whose
\* documents is checked and none of whose edges is shown is not in
\* visibleNodes, and an edge whose source document and ends' documents are
\* all unchecked is not in visibleEdges.
C18_OnlyCheckedDocumentsAppear == UncheckedIsHidden

\* What the filter does do: while at least one document is checked, what is
\* linked to unchecked documents only is not shown; while none is checked,
\* every node and every edge is shown.
CheckedDocumentsFilter ==
  IF visibleDocumentIds # {}
    THEN UncheckedIsHidden
    ELSE /\ visibleNodes(nodes, edges, visibleDocumentIds) = nodes
         /\ visibleEdges(nodes, edges, visibleDocumentIds) = edges

\* The asynchronous store actions that set isLoading.
LoadingActions ==
  {"saveGraph", "loadGraph", "loadResolvedGraph", "deleteDocument",
   "runEntityResolution", "triggerExtraction"}

\* A pending call stack holds one of them that has not settled.
Unsettled(stack) ==
  \/ stack[1] \in LoadingActions
  \/ Len(stack) = 2 /\ stack[2] \in LoadingActions

\* C19: isLoading is true while at least one asynchronous store action is in
\* flight, overlapping and nested ones included, and false once all have
\* settled.
C19_LoadingWhileInFlight ==
  isLoading <=> \E stack \in DOMAIN inflight : Unsettled(stack)

\* A fetch of a load has not been answered yet.
LoadInFlight ==
  \E stack \in DOMAIN inflight :
    stack[Len(stack)] \in {"loadGraph", "loadResolvedGraph"}

\* C20: while no load is in flight, graphMode is "resolved" exactly if the
\* snapshot applied last came from the resolved-graph fetch.
C20_ModeNamesLoadedGraph ==
  ~LoadInFlight => (graphMode = "resolved" <=> appliedFrom = "resolved")

\* C21: a loadGraph whose backend request fails (network error or non-OK
\* response) leaves nodes, edges, documents and visibleDocumentIds as they
\* were before the call.
C21_FailedLoadLeavesGraph ==
  [][\A stack \in DOMAIN inflight :
       LoadGraphSettles(stack, FALSE) =>
         UNCHANGED <<nodes, edges, documents, visibleDocumentIds>>
     ]_vars

\* C22: a saveGraph whose request fails leaves lastSavedAt unchanged and sets
\* errorMessage; lastSavedAt changes only when the backend accepted the
\* snapshot.
C22_SavedOnlyWhenAccepted ==
  [][SaveGraphSettles(FALSE) =>
       /\ lastSavedAt' = lastSavedAt
       /\ errorMessage' = "error"
     ]_vars

\* C23: resolveKgSimple, as the render buttons call it, maps no two entity
\* ids that carry different type prefixes (the text before the first ':') to
\* the same canonical id.
C23_NoMergeAcrossTypePrefixes ==
  \A a, b \in DOMAIN oldToNew :
    (HasPrefix(a) /\ HasPrefix(b) /\ TypePrefix(a) # TypePrefix(b))
      => oldToNew[a] # oldToNew[b]
====
